---- MODULE Spec2Model ----
(***************************************************************************)
(* A model of lsystem_generator.py: the streaming rewriter stream_expand   *)
(* (an explicit stack of (string, index, depth) frames driven by a         *)
(* pulling consumer) and the turtle interpreter interpret_to_polylines.    *)
(*                                                                         *)
(* Strings are sequences of one-character strings.  Python indexes from 0  *)
(* and TLA+ from 1: a frame keeps the source's 0-based index i and reads   *)
(* s[i + 1].  A Python list used as a stack has its top at the end.        *)
(***************************************************************************)
EXTENDS Integers, Sequences, FiniteSets, TLC

\* ------------------------------------------------------------------ bounds

MaxAxiomLen == 2
MaxReplLen == 2
MaxIter == 2
MaxSymbols == 6
\* _VALIDATE_SYMBOL_LIMIT (10_000 at line 909), scaled down to expansions
\* that the other bounds let exceed it.
VALIDATE_SYMBOL_LIMIT == 3
\* The longest sequence of symbols dispatched over the table FrameCommands.
MaxDispatch == 5
\* The longest word asked of _random_balanced_word.
MaxWordLen == 5

\* The rewriter's alphabet within the bounds.
Alphabet == {"A", "B"}

Words(n) == UNION {[1..k -> Alphabet] : k \in 0..n}

\* rules: dict[str, str]; a dict is a function on its keys.
RuleSets == UNION {[D -> Words(MaxReplLen)] : D \in SUBSET Alphabet}

Iterations == -1..MaxIter

\* --------------------------------------------------------------- variables

VARIABLES
    axiom,          \* stream_expand's argument
    rules,          \* stream_expand's argument
    iterations,     \* stream_expand's argument
    stack,          \* stream_expand's list of frames, top last
    gstate,         \* the generator: created, running, suspended, done, raised
    gerr,           \* the exception the generator raised, or "none"
    yielded,        \* every symbol yielded so far, in order
    pulls           \* how many times the consumer has called next()

gvars == <<axiom, rules, iterations, stack, gstate, gerr, yielded, pulls>>

VARIABLES
    commands,       \* interpret_to_polylines' argument: symbol -> action dict
    angle_deg,      \* interpret_to_polylines' argument
    step,           \* interpret_to_polylines' argument
    start,          \* interpret_to_polylines' argument, a TurtleState
    default_action, \* interpret_to_polylines' argument
    stream_symbols, \* the symbols the iterable `symbols` may deliver
    x, y, h,        \* the turtle: position (in 1/Milli units) and heading
    polylines,      \* buf.polylines
    branch_stack,   \* interpret_to_polylines' list `stack`, top last
    ipc,            \* idle, called, loop, returned, raised
    ierr,           \* the exception interpret_to_polylines raised, or "none"
    out,            \* the list interpret_to_polylines returned
    consumed        \* the symbols taken from `symbols` so far, in order

cfgvars == <<commands, angle_deg, step, start, default_action, stream_symbols>>

tvars == <<cfgvars, x, y, h, polylines, branch_stack, ipc, ierr, out, consumed>>

VARIABLES
    bounds,         \* compute_bounds on the returned list: its state and result
    gen2,           \* a second stream_expand generator, a record of its state
    bounded,        \* cmd_validate's list `bounded`
    truncated,      \* cmd_validate's flag `truncated`
    vpc,            \* cmd_validate: idle, islice, interpret, done, raised
    cli,            \* main: the command, its position, the exception, the status
    rbw             \* _random_balanced_word: its locals and its position

xvars == <<bounds, gen2, bounded, truncated, vpc, cli, rbw>>

vars == <<gvars, tvars, xvars>>

\* ------------------------------------------------------- stream_expand

Frame(s, i, d) == [s |-> s, i |-> i, d |-> d]

Top(stk) == stk[Len(stk)]

Pop(stk) == SubSeq(stk, 1, Len(stk) - 1)

\* The _require of line 134.
ValidIterationsUnchecked(n) == TRUE

ValidIterations(n) == n >= 0

\* Whether the loop body rewrites ch at depth d (line 148).
RewritesInclusive(ch, d, R, N) == d <= N /\ ch \in DOMAIN R

Rewrites(ch, d, R, N) == d < N /\ ch \in DOMAIN R

\* LoopBody with the replacement frame pushed under the continuation.
LoopBodySwapped(stk, R, N) ==
    LET f == Top(stk)
        rest == Pop(stk)
    IN  IF f.i >= Len(f.s)
        THEN [stack |-> rest, yield |-> <<>>]
        ELSE LET ch == f.s[f.i + 1]
             IN  IF Rewrites(ch, f.d, R, N)
                 THEN [stack |-> Append(Append(rest, Frame(R[ch], 0, f.d + 1)),
                                        Frame(f.s, f.i + 1, f.d)),
                       yield |-> <<>>]
                 ELSE [stack |-> Append(rest, Frame(f.s, f.i + 1, f.d)),
                       yield |-> <<ch>>]

\* LoopBody with the exhaustion test off by one: a frame's last symbol is
\* discarded with the frame.
LoopBodySkipsLast(stk, R, N) ==
    LET f == Top(stk)
        rest == Pop(stk)
    IN  IF f.i >= Len(f.s) - 1
        THEN [stack |-> rest, yield |-> <<>>]
        ELSE LET ch == f.s[f.i + 1]
                 cont == Append(rest, Frame(f.s, f.i + 1, f.d))
             IN  IF Rewrites(ch, f.d, R, N)
                 THEN [stack |-> Append(cont, Frame(R[ch], 0, f.d + 1)),
                       yield |-> <<>>]
                 ELSE [stack |-> cont, yield |-> <<ch>>]

\* LoopBody pushing onto the stack without removing the frame it read.
LoopBodyKeepsFrame(stk, R, N) ==
    LET f == Top(stk)
        rest == stk
    IN  IF f.i >= Len(f.s)
        THEN [stack |-> Pop(stk), yield |-> <<>>]
        ELSE LET ch == f.s[f.i + 1]
                 cont == Append(rest, Frame(f.s, f.i + 1, f.d))
             IN  IF Rewrites(ch, f.d, R, N)
                 THEN [stack |-> Append(cont, Frame(R[ch], 0, f.d + 1)),
                       yield |-> <<>>]
                 ELSE [stack |-> cont, yield |-> <<ch>>]

\* One iteration of `while stack:` on a non-empty stack: the frames left on
\* the stack and the symbols yielded (none or one).
LoopBody(stk, R, N) ==
    LET f == Top(stk)
        rest == Pop(stk)
    IN  IF f.i >= Len(f.s)
        THEN [stack |-> rest, yield |-> <<>>]
        ELSE LET ch == f.s[f.i + 1]
                 cont == Append(rest, Frame(f.s, f.i + 1, f.d))
             IN  IF Rewrites(ch, f.d, R, N)
                 THEN [stack |-> Append(cont, Frame(R[ch], 0, f.d + 1)),
                       yield |-> <<>>]
                 ELSE [stack |-> cont, yield |-> <<ch>>]

InitExpand ==
    /\ axiom \in Words(MaxAxiomLen)
    /\ rules \in RuleSets
    /\ iterations \in Iterations
    /\ stack = <<>>
    /\ gstate = "created"
    /\ gerr = "none"
    /\ yielded = <<>>
    /\ pulls = 0

\* The consumer calls next() on the generator.  The first call runs the
\* function body from its start: the _require of line 134, then line 137.
GenNext ==
    /\ gstate \in {"created", "suspended"}
    /\ pulls' = pulls + 1
    /\ IF gstate = "created"
       THEN IF ValidIterations(iterations)
            THEN /\ stack' = <<Frame(axiom, 0, 0)>>
                 /\ gstate' = "running"
                 /\ gerr' = gerr
            ELSE /\ gstate' = "raised"
                 /\ gerr' = "ConfigError"
                 /\ stack' = stack
       ELSE /\ gstate' = "running"
            /\ UNCHANGED <<stack, gerr>>
    /\ UNCHANGED <<axiom, rules, iterations, yielded>>
    /\ UNCHANGED <<tvars, xvars>>

\* ExpandStep for a generator that does not suspend at its yield.
ExpandStepEager ==
    /\ gstate = "running"
    /\ IF stack = <<>>
       THEN /\ gstate' = "done"
            /\ UNCHANGED <<stack, yielded>>
       ELSE LET r == LoopBody(stack, rules, iterations)
            IN  /\ stack' = r.stack
                /\ yielded' = yielded \o r.yield
                /\ gstate' = "running"
    /\ UNCHANGED <<axiom, rules, iterations, gerr, pulls>>
    /\ UNCHANGED <<tvars, xvars>>

\* ExpandStep for a loop that does not end when its stack is empty.
ExpandStepSpins ==
    /\ gstate = "running"
    /\ IF stack = <<>>
       THEN UNCHANGED <<gstate, stack, yielded>>
       ELSE LET r == LoopBody(stack, rules, iterations)
            IN  /\ stack' = r.stack
                /\ yielded' = yielded \o r.yield
                /\ gstate' = IF r.yield = <<>> THEN "running" ELSE "suspended"
    /\ UNCHANGED <<axiom, rules, iterations, gerr, pulls>>
    /\ UNCHANGED <<tvars, xvars>>

\* One iteration of the while loop, or its exit when the stack is empty.
ExpandStep ==
    /\ gstate = "running"
    /\ IF stack = <<>>
       THEN /\ gstate' = "done"
            /\ UNCHANGED <<stack, yielded>>
       ELSE LET r == LoopBody(stack, rules, iterations)
            IN  /\ stack' = r.stack
                /\ yielded' = yielded \o r.yield
                /\ gstate' = IF r.yield = <<>> THEN "running" ELSE "suspended"
    /\ UNCHANGED <<axiom, rules, iterations, gerr, pulls>>
    /\ UNCHANGED <<tvars, xvars>>

\* ------------------------------------------- Python values of a command

\* A value of an action dict: its Python type, and its number or its string.
\* Floats within the bounds have integral values.
PyNone == [t |-> "NoneType", n |-> 0, s |-> ""]

PyInt(n) == [t |-> "int", n |-> n, s |-> ""]

PyFloat(n) == [t |-> "float", n |-> n, s |-> ""]

PyBool(b) == [t |-> "bool", n |-> IF b THEN 1 ELSE 0, s |-> ""]

PyStr(s) == [t |-> "str", n |-> 0, s |-> s]

\* dict.get(key, default); dict.get(key) is Get(d, key, PyNone).
Get(d, key, default) == IF key \in DOMAIN d THEN d[key] ELSE default

\* isinstance(v, (int, float)): bool is a subclass of int.
IsNumber(v) == v.t \in {"int", "float", "bool"}

\* isinstance(v, int)
IsInt(v) == v.t \in {"int", "bool"}

\* isinstance(v, bool)
IsBool(v) == v.t = "bool"

\* isinstance(v, str)
IsStr(v) == v.t = "str"

\* v in (-1, 1): == compares numbers of any numeric type by value.
IsUnit(v) == IsNumber(v) /\ v.n \in {-1, 1}

\* ------------------------------------------------------------- geometry

\* Coordinates are floats in the source; the model keeps them in units of
\* 1/Milli, the trigonometric values rounded to that resolution.  Headings
\* are whole degrees, multiples of 45 within the bounds.
Milli == 1000

\* Milli * math.cos(math.radians(deg))
CosMilli(deg) ==
    LET r == deg % 360
    IN  CASE r = 0 -> Milli
          [] r = 45 -> 707
          [] r = 90 -> 0
          [] r = 135 -> -707
          [] r = 180 -> -Milli
          [] r = 225 -> -707
          [] r = 270 -> 0
          [] r = 315 -> 707

\* Milli * math.sin(math.radians(deg))
SinMilli(deg) == CosMilli(deg - 90)

\* ------------------------------------------------------- PolylineBuffer

\* start_new rebuilding the list with only the new polyline in it.
start_newResets(pls, p) == <<<<p>>>>

\* PolylineBuffer.start_new
start_new(pls, p) == Append(pls, <<p>>)

\* PolylineBuffer.current, on a buffer start_new has been called on.
current(pls) == pls[Len(pls)]

\* add_point without the comparison with the last point.
add_pointAlways(pls, p) ==
    [pls EXCEPT ![Len(pls)] = Append(current(pls), p)]

\* PolylineBuffer.add_point
add_point(pls, p) ==
    LET cur == current(pls)
    IN  IF cur = <<>>
        THEN [pls EXCEPT ![Len(pls)] = Append(cur, p)]
        ELSE IF cur[Len(cur)] # p
             THEN [pls EXCEPT ![Len(pls)] = Append(cur, p)]
             ELSE pls

\* ---------------------------------------------- interpret_to_polylines

TurtleState(px, py, heading) == [x |-> px, y |-> py, heading_deg |-> heading]

\* The command table of the tests: TestTurtle.setUp, and test_turn_abs's A.
TestCommands ==
    ("F" :> [type |-> PyStr("forward"), draw |-> PyBool(TRUE)])
    @@ ("f" :> [type |-> PyStr("forward"), draw |-> PyBool(FALSE)])
    @@ ("+" :> [type |-> PyStr("turn"), direction |-> PyInt(1)])
    @@ ("-" :> [type |-> PyStr("turn"), direction |-> PyInt(-1)])
    @@ ("[" :> [type |-> PyStr("push")])
    @@ ("]" :> [type |-> PyStr("pop")])
    @@ ("A" :> [type |-> PyStr("turn_abs"), angle |-> PyInt(90)])

\* A table of action dicts that parse_config accepts (lines 518-526 check
\* only that each is a dict) and the dispatch has to judge: F as in the
\* tests, and one symbol per missing or ill-typed field.
MalformedCommands ==
    ("F" :> [type |-> PyStr("forward"), draw |-> PyBool(TRUE)])
    @@ ("a" :> [draw |-> PyBool(TRUE)])
    @@ ("b" :> [type |-> PyInt(5)])
    @@ ("c" :> [type |-> PyStr("jump")])
    @@ ("d" :> [type |-> PyStr("forward")])
    @@ ("e" :> [type |-> PyStr("forward"), draw |-> PyInt(1)])
    @@ ("g" :> [type |-> PyStr("forward"), draw |-> PyBool(TRUE),
                step |-> PyStr("2")])
    @@ ("i" :> [type |-> PyStr("turn"), direction |-> PyFloat(1)])
    @@ ("j" :> [type |-> PyStr("turn"), direction |-> PyBool(TRUE)])
    @@ ("k" :> [type |-> PyStr("turn")])
    @@ ("l" :> [type |-> PyStr("turn"), direction |-> PyInt(2)])
    @@ ("m" :> [type |-> PyStr("turn"), direction |-> PyInt(1),
                angle |-> PyStr("x")])
    @@ ("n" :> [type |-> PyStr("turn_abs")])
    @@ ("o" :> [type |-> PyStr("turn_abs"), angle |-> PyStr("90")])

CommandTables == {TestCommands, MalformedCommands}

\* What the iterable may deliver: the branching symbols of test_branching,
\* and the pen symbols with turn_abs and X, a symbol no table holds.
StreamAlphabets == {{"F", "+", "[", "]"}, {"F", "f", "A", "X"}}

\* The alphabets a stream over the given table is drawn from: the two of
\* the tests, or every symbol of the malformed table.
StreamAlphabetsFor(table) ==
    IF table = TestCommands THEN StreamAlphabets ELSE {DOMAIN table}

DefaultActions == {"forward_draw", "forward_move", "noop"}

\* The locals of the interpreter's loop; err is the exception raised.
Locals == [x |-> x, y |-> y, h |-> h, polylines |-> polylines,
           stack |-> branch_stack, err |-> "none"]

Raise(st, e) == [st EXCEPT !.err = e]

\* ResolveAction with the two forward policies exchanged.
ResolveActionSwapped(sym) ==
    IF sym \in DOMAIN commands
    THEN commands[sym]
    ELSE IF default_action = "forward_draw"
         THEN [type |-> PyStr("forward"), draw |-> PyBool(FALSE)]
         ELSE IF default_action = "forward_move"
              THEN [type |-> PyStr("forward"), draw |-> PyBool(TRUE)]
              ELSE [type |-> PyStr("noop")]

\* Lines 230-237: the command of the table, or the one the default policy
\* stands for.
ResolveAction(sym) ==
    IF sym \in DOMAIN commands
    THEN commands[sym]
    ELSE IF default_action = "forward_draw"
         THEN [type |-> PyStr("forward"), draw |-> PyBool(TRUE)]
         ELSE IF default_action = "forward_move"
              THEN [type |-> PyStr("forward"), draw |-> PyBool(FALSE)]
              ELSE [type |-> PyStr("noop")]

\* Turn by the base angle whatever the command's angle field.
TurnIgnoresAngle(st, action) ==
    LET direction == Get(action, "direction", PyNone)
        a == Get(action, "angle", PyInt(1))
    IN  IF ~IsUnit(direction)
        THEN Raise(st, "ConfigError")
        ELSE IF ~IsInt(direction)
             THEN Raise(st, "TypeError")
             ELSE IF IsNumber(a)
                  THEN [st EXCEPT !.h = @ + direction.n * angle_deg]
                  ELSE Raise(st, "ConfigError")

\* Lines 247-266.
Turn(st, action) ==
    LET direction == Get(action, "direction", PyNone)
        a == Get(action, "angle", PyInt(1))
    IN  IF ~IsUnit(direction)
        THEN Raise(st, "ConfigError")
        ELSE IF ~IsInt(direction)
             THEN Raise(st, "TypeError")
             ELSE IF IsNumber(a)
                  THEN [st EXCEPT !.h = @ + direction.n * a.n * angle_deg]
                  ELSE Raise(st, "ConfigError")

\* TurnAbs setting the heading to the angle instead of adding it.
TurnAbsResets(st, action) ==
    LET a == Get(action, "angle", PyNone)
    IN  IF IsNumber(a)
        THEN [st EXCEPT !.h = a.n]
        ELSE Raise(st, "ConfigError")

\* Lines 268-271.
TurnAbs(st, action) ==
    LET a == Get(action, "angle", PyNone)
    IN  IF IsNumber(a)
        THEN [st EXCEPT !.h = @ + a.n]
        ELSE Raise(st, "ConfigError")

\* Push breaking the polyline at the saved position.
PushStartsNew(st) ==
    [st EXCEPT !.stack = Append(@, TurtleState(st.x, st.y, st.h)),
               !.polylines = start_new(@, <<st.x, st.y>>)]

\* Lines 273-280.
Push(st) ==
    [st EXCEPT !.stack = Append(@, TurtleState(st.x, st.y, st.h))]

\* PopState restoring the position but not the heading.
PopStateKeepsHeading(st) ==
    IF st.stack = <<>>
    THEN Raise(st, "ConfigError")
    ELSE LET saved == st.stack[Len(st.stack)]
         IN  [st EXCEPT !.stack = SubSeq(@, 1, Len(@) - 1),
                        !.x = saved.x,
                        !.y = saved.y,
                        !.polylines = start_new(@, <<saved.x, saved.y>>)]

\* PopState taking the oldest frame instead of the newest.
PopStateFifo(st) ==
    IF st.stack = <<>>
    THEN Raise(st, "ConfigError")
    ELSE LET saved == st.stack[1]
         IN  [st EXCEPT !.stack = Tail(@),
                        !.x = saved.x,
                        !.y = saved.y,
                        !.h = saved.heading_deg,
                        !.polylines = start_new(@, <<saved.x, saved.y>>)]

\* PopState without the new polyline at the restored point.
PopStateContinues(st) ==
    IF st.stack = <<>>
    THEN Raise(st, "ConfigError")
    ELSE LET saved == st.stack[Len(st.stack)]
         IN  [st EXCEPT !.stack = SubSeq(@, 1, Len(@) - 1),
                        !.x = saved.x,
                        !.y = saved.y,
                        !.h = saved.heading_deg,
                        !.polylines = add_point(@, <<saved.x, saved.y>>)]

\* PopState ignoring a pop on an empty stack.
PopStateLenient(st) ==
    IF st.stack = <<>>
    THEN st
    ELSE LET saved == st.stack[Len(st.stack)]
         IN  [st EXCEPT !.stack = SubSeq(@, 1, Len(@) - 1),
                        !.x = saved.x,
                        !.y = saved.y,
                        !.h = saved.heading_deg,
                        !.polylines = start_new(@, <<saved.x, saved.y>>)]

\* Lines 282-289.
PopState(st) ==
    IF st.stack = <<>>
    THEN Raise(st, "ConfigError")
    ELSE LET saved == st.stack[Len(st.stack)]
         IN  [st EXCEPT !.stack = SubSeq(@, 1, Len(@) - 1),
                        !.x = saved.x,
                        !.y = saved.y,
                        !.h = saved.heading_deg,
                        !.polylines = start_new(@, <<saved.x, saved.y>>)]

\* Forward whose pen-up move leaves the buffer as it is.
ForwardMoveKeepsBuffer(st, action) ==
    LET draw == Get(action, "draw", PyNone)
        mult == Get(action, "step", PyInt(1))
    IN  IF ~IsBool(draw)
        THEN Raise(st, "ConfigError")
        ELSE IF ~IsNumber(mult)
             THEN Raise(st, "ConfigError")
             ELSE LET dist == step * mult.n
                      nx == st.x + dist * CosMilli(st.h)
                      ny == st.y + dist * SinMilli(st.h)
                  IN  [st EXCEPT
                          !.polylines = IF draw.n = 1
                                        THEN add_point(@, <<nx, ny>>)
                                        ELSE @,
                          !.x = nx,
                          !.y = ny]

\* Forward drawing the pen-up move too.
ForwardAlwaysDraws(st, action) ==
    LET draw == Get(action, "draw", PyNone)
        mult == Get(action, "step", PyInt(1))
    IN  IF ~IsBool(draw)
        THEN Raise(st, "ConfigError")
        ELSE IF ~IsNumber(mult)
             THEN Raise(st, "ConfigError")
             ELSE LET dist == step * mult.n
                      nx == st.x + dist * CosMilli(st.h)
                      ny == st.y + dist * SinMilli(st.h)
                  IN  [st EXCEPT !.polylines = add_point(@, <<nx, ny>>),
                                 !.x = nx,
                                 !.y = ny]

\* Lines 291-314.
Forward(st, action) ==
    LET draw == Get(action, "draw", PyNone)
        mult == Get(action, "step", PyInt(1))
    IN  IF ~IsBool(draw)
        THEN Raise(st, "ConfigError")
        ELSE IF ~IsNumber(mult)
             THEN Raise(st, "ConfigError")
             ELSE LET dist == step * mult.n
                      nx == st.x + dist * CosMilli(st.h)
                      ny == st.y + dist * SinMilli(st.h)
                  IN  [st EXCEPT
                          !.polylines = IF draw.n = 1
                                        THEN add_point(@, <<nx, ny>>)
                                        ELSE start_new(@, <<nx, ny>>),
                          !.x = nx,
                          !.y = ny]

\* Lines 239-316: the dispatch on the command's type.
ApplyAction(st, action) ==
    LET atype == Get(action, "type", PyNone)
    IN  IF ~IsStr(atype) THEN Raise(st, "ConfigError")
        ELSE IF atype.s = "noop" THEN st
        ELSE IF atype.s = "turn" THEN Turn(st, action)
        ELSE IF atype.s = "turn_abs" THEN TurnAbs(st, action)
        ELSE IF atype.s = "push" THEN Push(st)
        ELSE IF atype.s = "pop" THEN PopState(st)
        ELSE IF atype.s = "forward" THEN Forward(st, action)
        ELSE Raise(st, "ConfigError")

\* Cleanup keeping the polylines of a single point.
CleanupKeepsSinglePoint(pls) == SelectSeq(pls, LAMBDA pl : Len(pl) >= 1)

\* Lines 318-323: the polylines of at least two points, in order.
Cleanup(pls) == SelectSeq(pls, LAMBDA pl : Len(pl) >= 2)

\* ValidStep accepting a step of 0.
ValidStepNonNegative(s) == s >= 0

\* The _require of line 212.
ValidStep(s) == s > 0

\* ValidDefaultAction left to the dispatch of an absent symbol.
ValidDefaultActionUnchecked(d) == TRUE

\* The _require of lines 213-219.
ValidDefaultAction(d) == d \in DefaultActions

\* Lines 221-227: the locals when the loop starts.
InitialLocals ==
    [x |-> start.x, y |-> start.y, h |-> start.heading_deg,
     polylines |-> start_new(<<>>, <<start.x, start.y>>),
     stack |-> <<>>, err |-> "none"]

\* Lines 229-316 on a sequence of commands: the loop stops at the first
\* command that raises.
RECURSIVE RunActions(_, _)
RunActions(st, actions) ==
    IF actions = <<>> \/ st.err # "none"
    THEN st
    ELSE RunActions(ApplyAction(st, Head(actions)), Tail(actions))

\* Lines 230-237 for every symbol of a sequence.
ActionsOf(symbols) == [i \in DOMAIN symbols |-> ResolveAction(symbols[i])]

\* Lines 187-323 as a function of a finite sequence of symbols: the
\* exception raised, or the list returned.
interpret_to_polylines(symbols) ==
    IF ~(ValidStep(step) /\ ValidDefaultAction(default_action))
    THEN [err |-> "ConfigError", out |-> <<>>]
    ELSE LET st == RunActions(InitialLocals, ActionsOf(symbols))
         IN  IF st.err = "none"
             THEN [err |-> "none", out |-> Cleanup(st.polylines)]
             ELSE [err |-> st.err, out |-> <<>>]

\* The call: every argument bound, nothing of the body run.
InitTurtle ==
    /\ commands \in CommandTables
    /\ angle_deg \in {45, 90}
    /\ step \in {-10, 0, 10}
    /\ start = TurtleState(0, 0, 0)
    /\ default_action \in DefaultActions \cup {"typo"}
    /\ stream_symbols \in StreamAlphabetsFor(commands)
    /\ x = 0
    /\ y = 0
    /\ h = 0
    /\ polylines = <<>>
    /\ branch_stack = <<>>
    /\ ipc = "called"
    /\ ierr = "none"
    /\ out = <<>>
    /\ consumed = <<>>

\* Begin trying every entry of the table before the loop starts.
BeginValidates ==
    /\ ipc = "called"
    /\ IF /\ ValidStep(step) /\ ValidDefaultAction(default_action)
          /\ \A s \in DOMAIN commands :
                 ApplyAction([InitialLocals EXCEPT !.stack = <<start>>],
                             commands[s]).err = "none"
       THEN /\ x' = start.x
            /\ y' = start.y
            /\ h' = start.heading_deg
            /\ polylines' = start_new(<<>>, <<start.x, start.y>>)
            /\ branch_stack' = <<>>
            /\ ipc' = "loop"
            /\ ierr' = ierr
       ELSE /\ ipc' = "raised"
            /\ ierr' = "ConfigError"
            /\ UNCHANGED <<x, y, h, polylines, branch_stack>>
    /\ UNCHANGED <<cfgvars, out, consumed>>
    /\ UNCHANGED <<gvars, xvars>>

\* Lines 212-227: the two checks of the arguments, then the initial state.
Begin ==
    /\ ipc = "called"
    /\ IF ValidStep(step) /\ ValidDefaultAction(default_action)
       THEN /\ x' = start.x
            /\ y' = start.y
            /\ h' = start.heading_deg
            /\ polylines' = start_new(<<>>, <<start.x, start.y>>)
            /\ branch_stack' = <<>>
            /\ ipc' = "loop"
            /\ ierr' = ierr
       ELSE /\ ipc' = "raised"
            /\ ierr' = "ConfigError"
            /\ UNCHANGED <<x, y, h, polylines, branch_stack>>
    /\ UNCHANGED <<cfgvars, out, consumed>>
    /\ UNCHANGED <<gvars, xvars>>

\* Interpret going on to the next symbol when a command raises.
InterpretRecovers(sym) ==
    /\ ipc = "loop"
    /\ consumed' = Append(consumed, sym)
    /\ LET st == ApplyAction(Locals, ResolveAction(sym))
       IN  IF st.err = "none"
           THEN /\ x' = st.x
                /\ y' = st.y
                /\ h' = st.h
                /\ polylines' = st.polylines
                /\ branch_stack' = st.stack
                /\ UNCHANGED <<ipc, ierr>>
           ELSE /\ ierr' = st.err
                /\ UNCHANGED <<ipc, x, y, h, polylines, branch_stack>>
    /\ UNCHANGED <<cfgvars, out>>

\* One iteration of `for sym in symbols` (lines 229-316) on symbol sym.
Interpret(sym) ==
    /\ ipc = "loop"
    /\ consumed' = Append(consumed, sym)
    /\ LET st == ApplyAction(Locals, ResolveAction(sym))
       IN  IF st.err = "none"
           THEN /\ x' = st.x
                /\ y' = st.y
                /\ h' = st.h
                /\ polylines' = st.polylines
                /\ branch_stack' = st.stack
                /\ UNCHANGED <<ipc, ierr>>
           ELSE /\ ipc' = "raised"
                /\ ierr' = st.err
                /\ UNCHANGED <<x, y, h, polylines, branch_stack>>
    /\ UNCHANGED <<cfgvars, out>>

\* The iterable is a literal string: any symbol of the stream's alphabet
\* may come next, up to MaxSymbols symbols.
InterpretLiteral ==
    /\ Len(consumed) < MaxSymbols
    /\ \E sym \in stream_symbols : Interpret(sym)
    /\ UNCHANGED <<gvars, xvars>>

\* The iterable is exhausted: lines 318-323.
Return ==
    /\ ipc = "loop"
    /\ out' = Cleanup(polylines)
    /\ ipc' = "returned"
    /\ UNCHANGED <<cfgvars, x, y, h, polylines, branch_stack, ierr, consumed>>
    /\ UNCHANGED <<gvars, xvars>>

\* ------------------------------------------------------- compute_bounds

\* math.inf of lines 337-338, above every coordinate of the model.
Inf == 2147483647

SetMin(S) == CHOOSE m \in S : \A n \in S : m <= n

SetMax(S) == CHOOSE m \in S : \A n \in S : m >= n

\* Coordinate c (1 for x, 2 for y) of every point of every polyline.
Coordinates(pls, c) ==
    UNION {{pls[i][j][c] : j \in DOMAIN pls[i]} : i \in DOMAIN pls}

\* Lines 337-349: the running minima and maxima, from +inf and -inf.
BoundingBox(pls) ==
    <<SetMin(Coordinates(pls, 1) \cup {Inf}),
      SetMin(Coordinates(pls, 2) \cup {Inf}),
      SetMax(Coordinates(pls, 1) \cup {-Inf}),
      SetMax(Coordinates(pls, 2) \cup {-Inf})>>

\* compute_bounds without its _require.
compute_boundsUnchecked(pls) == [err |-> "none", box |-> BoundingBox(pls)]

\* Lines 335-349.
compute_bounds(pls) ==
    IF Len(pls) > 0
    THEN [err |-> "none", box |-> BoundingBox(pls)]
    ELSE [err |-> "ConfigError", box |-> <<>>]

\* compute_bounds called on the list interpret_to_polylines returned
\* (write_svg, line 376).
ComputeBounds ==
    /\ ipc = "returned"
    /\ bounds.state = "idle"
    /\ LET r == compute_bounds(out)
       IN  bounds' = [state |-> IF r.err = "none" THEN "returned" ELSE "raised",
                      err |-> r.err,
                      box |-> r.box]
    /\ UNCHANGED <<gvars, tvars, gen2, bounded, truncated, vpc, cli, rbw>>

\* ------------------------------------------------------ specifications

\* No interpreter call is in progress.
NoInterpreter ==
    /\ commands = <<>>
    /\ angle_deg = 0
    /\ step = 0
    /\ start = TurtleState(0, 0, 0)
    /\ default_action = "noop"
    /\ stream_symbols = {}
    /\ x = 0
    /\ y = 0
    /\ h = 0
    /\ polylines = <<>>
    /\ branch_stack = <<>>
    /\ ipc = "idle"
    /\ ierr = "none"
    /\ out = <<>>
    /\ consumed = <<>>

\* No generator exists.
NoGenerator ==
    /\ axiom = <<>>
    /\ rules = <<>>
    /\ iterations = 0
    /\ stack = <<>>
    /\ gstate = "none"
    /\ gerr = "none"
    /\ yielded = <<>>
    /\ pulls = 0

\* compute_bounds has not been called.
NoBounds == bounds = [state |-> "idle", err |-> "none", box |-> <<>>]

\* No second generator exists.
NoSecondGenerator ==
    gen2 = [axiom |-> <<>>, rules |-> <<>>, iterations |-> 0, stack |-> <<>>,
            gstate |-> "none", gerr |-> "none", yielded |-> <<>>, pulls |-> 0]

\* main has not been called.
NoMain ==
    cli = [cmd |-> "none", margin |-> 0, pc |-> "idle", err |-> "none", rc |-> -1]

\* _random_balanced_word has not been called.
NoRandomWord ==
    rbw = [length |-> 0, i |-> 0, word |-> <<>>, depth |-> 0, pc |-> "idle"]

\* cmd_validate is not running.
NoValidate ==
    /\ bounded = <<>>
    /\ truncated = FALSE
    /\ vpc = "idle"

NextExpand == GenNext \/ ExpandStep

\* stream_expand on its own, pulled by a consumer that may stop at any point.
InitExpandOnly ==
    /\ InitExpand /\ NoInterpreter /\ NoBounds /\ NoSecondGenerator /\ NoValidate
    /\ NoMain /\ NoRandomWord

SpecExpand == InitExpandOnly /\ [][NextExpand]_vars

\* stream_expand under a consumer that keeps calling next(), the generator
\* running whenever it has been resumed.
SpecExpandFair == SpecExpand /\ WF_vars(NextExpand)

NextTurtle == Begin \/ InterpretLiteral \/ Return \/ ComputeBounds

\* interpret_to_polylines on its own, on every literal string of its
\* stream's alphabet.
InitTurtleOnly ==
    /\ InitTurtle /\ NoGenerator /\ NoBounds /\ NoSecondGenerator /\ NoValidate
    /\ NoMain /\ NoRandomWord

SpecTurtle == InitTurtleOnly /\ [][NextTurtle]_vars

\* cmd_render, lines 879-893: interpret_to_polylines iterating a
\* stream_expand generator.

\* L-systems with at most one rule.
SingleRuleSets == {R \in RuleSets : Cardinality(DOMAIN R) <= 1}

\* Command tables for the rewriter's alphabet: A draws; B pops, has an
\* unknown type, turns left, or moves with the pen up.
RenderCommands ==
    {("A" :> [type |-> PyStr("forward"), draw |-> PyBool(TRUE)]) @@ ("B" :> b) :
        b \in {[type |-> PyStr("pop")],
               [type |-> PyStr("jump")],
               [type |-> PyStr("turn"), direction |-> PyInt(1)],
               [type |-> PyStr("forward"), draw |-> PyBool(FALSE)]}}

\* After parse_config (axiom non-empty, line 466; iterations >= 0, line
\* 469; step unchecked) and the call of stream_expand of line 885.
InitRender ==
    /\ axiom \in Words(MaxAxiomLen) \ {<<>>}
    /\ rules \in SingleRuleSets
    /\ iterations \in 0..MaxIter
    /\ stack = <<>>
    /\ gstate = "created"
    /\ gerr = "none"
    /\ yielded = <<>>
    /\ pulls = 0
    /\ commands \in RenderCommands
    /\ angle_deg = 90
    /\ step \in {0, 10}
    /\ start = TurtleState(0, 0, 0)
    /\ default_action = "forward_draw"
    /\ stream_symbols = Alphabet
    /\ x = 0
    /\ y = 0
    /\ h = 0
    /\ polylines = <<>>
    /\ branch_stack = <<>>
    /\ ipc = "called"
    /\ ierr = "none"
    /\ out = <<>>
    /\ consumed = <<>>
    /\ NoBounds
    /\ NoSecondGenerator
    /\ NoValidate
    /\ NoMain
    /\ NoRandomWord

\* Line 229: the for loop asks the generator for its next symbol.
Pull ==
    /\ ipc = "loop"
    /\ Len(consumed) = Len(yielded)
    /\ GenNext

\* Deliver handing over the first symbol the generator ever yielded.
DeliverFirst ==
    /\ ipc = "loop"
    /\ gstate = "suspended"
    /\ Len(yielded) = Len(consumed) + 1
    /\ Interpret(yielded[1])
    /\ UNCHANGED <<gvars, xvars>>

\* Lines 229-316: the generator has yielded, the loop body runs on the
\* symbol.
Deliver ==
    /\ ipc = "loop"
    /\ gstate = "suspended"
    /\ Len(yielded) = Len(consumed) + 1
    /\ Interpret(yielded[Len(yielded)])
    /\ UNCHANGED <<gvars, xvars>>

\* The generator is exhausted (StopIteration): the loop ends, lines 318-323.
Exhausted ==
    /\ gstate = "done"
    /\ Return

NextRender == Begin \/ Pull \/ ExpandStep \/ Deliver \/ Exhausted \/ ComputeBounds

SpecRender == InitRender /\ [][NextRender]_vars

\* cmd_validate, lines 912-950.

\* After parse_config and the call of stream_expand of line 929; the
\* interpreter is called only when the list is complete.
InitValidate ==
    /\ axiom \in Words(MaxAxiomLen) \ {<<>>}
    /\ rules \in SingleRuleSets
    /\ iterations \in 0..MaxIter
    /\ stack = <<>>
    /\ gstate = "created"
    /\ gerr = "none"
    /\ yielded = <<>>
    /\ pulls = 0
    /\ commands \in RenderCommands
    /\ angle_deg = 90
    /\ step = 10
    /\ start = TurtleState(0, 0, 0)
    /\ default_action = "forward_draw"
    /\ stream_symbols = Alphabet
    /\ x = 0
    /\ y = 0
    /\ h = 0
    /\ polylines = <<>>
    /\ branch_stack = <<>>
    /\ ipc = "idle"
    /\ ierr = "none"
    /\ out = <<>>
    /\ consumed = <<>>
    /\ bounded = <<>>
    /\ truncated = FALSE
    /\ vpc = "islice"
    /\ NoBounds
    /\ NoSecondGenerator
    /\ NoMain
    /\ NoRandomWord

\* SlicePull for an islice that never stops asking.
SlicePullUnbounded ==
    /\ vpc = "islice"
    /\ GenNext

\* Line 930: islice asks the generator for one more symbol while it has
\* handed over fewer than the limit.
SlicePull ==
    /\ vpc = "islice"
    /\ Len(yielded) < VALIDATE_SYMBOL_LIMIT
    /\ GenNext

\* Lines 930-938: islice stops at the limit or when the generator is
\* exhausted; list() returns, the flag is computed and the interpreter is
\* called on the list.
SliceDone ==
    /\ vpc = "islice"
    /\ \/ gstate = "done"
       \/ gstate \in {"created", "suspended"} /\ Len(yielded) >= VALIDATE_SYMBOL_LIMIT
    /\ bounded' = yielded
    /\ truncated' = (Len(yielded) = VALIDATE_SYMBOL_LIMIT)
    /\ vpc' = "interpret"
    /\ ipc' = "called"
    /\ UNCHANGED <<cfgvars, x, y, h, polylines, branch_stack, ierr, out, consumed>>
    /\ UNCHANGED <<gvars, bounds, gen2, cli, rbw>>

\* The for loop of line 229 over the list.
InterpretBounded ==
    /\ Len(consumed) < Len(bounded)
    /\ Interpret(bounded[Len(consumed) + 1])
    /\ UNCHANGED <<gvars, xvars>>

\* The list is exhausted: lines 318-323.
ReturnBounded ==
    /\ Len(consumed) = Len(bounded)
    /\ Return

\* Lines 939-950: the report, and the error when nothing was drawn.
Finish ==
    /\ vpc = "interpret"
    /\ ipc = "returned"
    /\ vpc' = IF Len(out) = 0 THEN "raised" ELSE "done"
    /\ UNCHANGED <<gvars, tvars, bounds, gen2, bounded, truncated, cli, rbw>>

NextValidate ==
    SlicePull \/ ExpandStep \/ SliceDone \/ Begin \/ InterpretBounded
    \/ ReturnBounded \/ Finish

SpecValidate == InitValidate /\ [][NextValidate]_vars

\* Two stream_expand generators alive at once, their next() calls
\* interleaved in any order.

\* The algae system of test_simple_expansion, and a system with one rule.
InterleavedRules ==
    {("A" :> <<"A", "B">>) @@ ("B" :> <<"A">>), ("A" :> <<"B">>)}

\* Both generators created, neither started.  The second works on the same
\* or another axiom, and on the same or another rule set, as the first.
InitTwoGenerators ==
    /\ axiom \in [1..MaxAxiomLen -> Alphabet]
    /\ rules \in InterleavedRules
    /\ iterations \in (MaxIter - 1)..MaxIter
    /\ stack = <<>>
    /\ gstate = "created"
    /\ gerr = "none"
    /\ yielded = <<>>
    /\ pulls = 0
    /\ \E a \in {<<"A">>, axiom}, R \in InterleavedRules :
           gen2 = [axiom |-> a, rules |-> R, iterations |-> MaxIter,
                   stack |-> <<>>, gstate |-> "created", gerr |-> "none",
                   yielded |-> <<>>, pulls |-> 0]
    /\ NoInterpreter
    /\ NoBounds
    /\ NoValidate
    /\ NoMain
    /\ NoRandomWord

\* GenNext on the second generator.
GenNext2 ==
    /\ gen2.gstate \in {"created", "suspended"}
    /\ gen2' = IF gen2.gstate = "created"
               THEN IF ValidIterations(gen2.iterations)
                    THEN [gen2 EXCEPT !.pulls = @ + 1,
                                      !.stack = <<Frame(gen2.axiom, 0, 0)>>,
                                      !.gstate = "running"]
                    ELSE [gen2 EXCEPT !.pulls = @ + 1,
                                      !.gstate = "raised",
                                      !.gerr = "ConfigError"]
               ELSE [gen2 EXCEPT !.pulls = @ + 1, !.gstate = "running"]
    /\ UNCHANGED <<gvars, tvars, bounds, bounded, truncated, vpc, cli, rbw>>

\* ExpandStep2 for a stack that is one object shared by all generators.
ExpandStep2SharedStack ==
    /\ gen2.gstate = "running"
    /\ IF stack = <<>>
       THEN /\ gen2' = [gen2 EXCEPT !.gstate = "done"]
            /\ stack' = stack
       ELSE LET r == LoopBody(stack, gen2.rules, gen2.iterations)
            IN  /\ stack' = r.stack
                /\ gen2' = [gen2 EXCEPT
                               !.yielded = @ \o r.yield,
                               !.gstate = IF r.yield = <<>> THEN "running"
                                                            ELSE "suspended"]
    /\ UNCHANGED <<axiom, rules, iterations, gstate, gerr, yielded, pulls>>
    /\ UNCHANGED <<tvars, bounds, bounded, truncated, vpc, cli, rbw>>

\* ExpandStep on the second generator: its stack is the local of its own
\* frame (line 137).
ExpandStep2 ==
    /\ gen2.gstate = "running"
    /\ IF gen2.stack = <<>>
       THEN gen2' = [gen2 EXCEPT !.gstate = "done"]
       ELSE LET r == LoopBody(gen2.stack, gen2.rules, gen2.iterations)
            IN  gen2' = [gen2 EXCEPT
                            !.stack = r.stack,
                            !.yielded = @ \o r.yield,
                            !.gstate = IF r.yield = <<>> THEN "running"
                                                         ELSE "suspended"]
    /\ UNCHANGED <<gvars, tvars, bounds, bounded, truncated, vpc, cli, rbw>>

NextTwoGenerators == GenNext \/ ExpandStep \/ GenNext2 \/ ExpandStep2

SpecTwoGenerators == InitTwoGenerators /\ [][NextTwoGenerators]_vars

\* main, lines 958-979, around cmd_render, cmd_validate and cmd_random.

\* The tables of RenderCommands, and one whose B is a turn with the float
\* direction 1.0.
MainCommands ==
    RenderCommands
    \cup {("A" :> [type |-> PyStr("forward"), draw |-> PyBool(TRUE)])
          @@ ("B" :> [type |-> PyStr("turn"), direction |-> PyFloat(1)])}

\* main is called: args.cmd is one of the three subcommands; the other
\* variables hold what the configuration file would parse to.
InitMain ==
    /\ \E c \in {"render", "validate", "random"}, m \in {0, Milli} :
           /\ cli = [cmd |-> c, margin |-> m, pc |-> "called", err |-> "none",
                     rc |-> -1]
           /\ IF c = "random"
              THEN /\ axiom = <<"A">>
                   /\ rules = <<>>
                   /\ iterations = 0
                   /\ commands = <<>>
                   /\ m = 0
              ELSE /\ axiom \in Words(MaxAxiomLen) \ {<<>>}
                   /\ rules \in SingleRuleSets
                   /\ iterations \in 0..MaxIter
                   /\ commands \in MainCommands
                   /\ (c = "validate" => m = 0)
    /\ stack = <<>>
    /\ gstate = "none"
    /\ gerr = "none"
    /\ yielded = <<>>
    /\ pulls = 0
    /\ angle_deg = 90
    /\ step = 10
    /\ start = TurtleState(0, 0, 0)
    /\ default_action = "forward_draw"
    /\ stream_symbols = Alphabet
    /\ x = 0
    /\ y = 0
    /\ h = 0
    /\ polylines = <<>>
    /\ branch_stack = <<>>
    /\ ipc = "idle"
    /\ ierr = "none"
    /\ out = <<>>
    /\ consumed = <<>>
    /\ NoBounds
    /\ NoSecondGenerator
    /\ NoValidate
    /\ NoRandomWord

\* Lines 882-885 and 913-929: load_json fails on the file (OSError) or on
\* its JSON (ConfigError), parse_config rejects the object (ConfigError),
\* or the generator is created and the command goes on.
LoadConfig ==
    /\ cli.pc = "called"
    /\ cli.cmd \in {"render", "validate"}
    /\ \/ /\ \E e \in {"OSError", "ConfigError"} :
                 cli' = [cli EXCEPT !.pc = "raised", !.err = e]
          /\ UNCHANGED <<gstate, ipc, vpc>>
       \/ /\ cli' = [cli EXCEPT !.pc = "run"]
          /\ gstate' = "created"
          /\ ipc' = IF cli.cmd = "render" THEN "called" ELSE ipc
          /\ vpc' = IF cli.cmd = "validate" THEN "islice" ELSE vpc
    /\ UNCHANGED <<axiom, rules, iterations, stack, gerr, yielded, pulls>>
    /\ UNCHANGED <<cfgvars, x, y, h, polylines, branch_stack, ierr, out, consumed>>
    /\ UNCHANGED <<bounds, gen2, bounded, truncated, rbw>>

\* The steps of cmd_render, lines 885-893 and 376.
RenderStep ==
    /\ cli.cmd = "render"
    /\ cli.pc = "run"
    /\ (Begin \/ Pull \/ ExpandStep \/ Deliver \/ Exhausted \/ ComputeBounds)

\* The steps of cmd_validate, lines 929-950.
ValidateStep ==
    /\ cli.cmd = "validate"
    /\ cli.pc = "run"
    /\ (SlicePull \/ ExpandStep \/ SliceDone \/ Begin \/ InterpretBounded
        \/ ReturnBounded \/ Finish)

\* write_svg after compute_bounds, lines 381-451: the check of the
\* dimensions, then the file is written or the write fails.
WriteSvg ==
    /\ cli.cmd = "render"
    /\ cli.pc = "run"
    /\ bounds.state = "returned"
    /\ LET w == (bounds.box[3] + cli.margin) - (bounds.box[1] - cli.margin)
           ht == (bounds.box[4] + cli.margin) - (bounds.box[2] - cli.margin)
       IN  IF w > 0 /\ ht > 0
           THEN \/ cli' = [cli EXCEPT !.pc = "completed"]
                \/ cli' = [cli EXCEPT !.pc = "raised", !.err = "OSError"]
           ELSE cli' = [cli EXCEPT !.pc = "raised", !.err = "ConfigError"]
    /\ UNCHANGED <<gvars, tvars, bounds, gen2, bounded, truncated, vpc, rbw>>

\* cmd_random, lines 953-955: the file is written or the write fails.
RandomCmd ==
    /\ cli.cmd = "random"
    /\ cli.pc = "called"
    /\ \/ cli' = [cli EXCEPT !.pc = "completed"]
       \/ cli' = [cli EXCEPT !.pc = "raised", !.err = "OSError"]
    /\ UNCHANGED <<gvars, tvars, bounds, gen2, bounded, truncated, vpc, rbw>>

\* An exception raised by interpret_to_polylines, compute_bounds or the
\* last line of cmd_validate leaves the command; cmd_validate returns.
CommandEnds ==
    /\ cli.pc = "run"
    /\ \/ /\ ipc = "raised"
          /\ cli' = [cli EXCEPT !.pc = "raised", !.err = ierr]
       \/ /\ bounds.state = "raised"
          /\ cli' = [cli EXCEPT !.pc = "raised", !.err = bounds.err]
       \/ /\ vpc = "raised"
          /\ cli' = [cli EXCEPT !.pc = "raised", !.err = "ConfigError"]
       \/ /\ vpc = "done"
          /\ cli' = [cli EXCEPT !.pc = "completed"]
    /\ UNCHANGED <<gvars, tvars, bounds, gen2, bounded, truncated, vpc, rbw>>

\* Lines 972-979: the two except clauses and the final return; any other
\* exception leaves main.
MainReturn ==
    /\ cli.pc \in {"completed", "raised"}
    /\ cli' = IF cli.pc = "completed"
              THEN [cli EXCEPT !.pc = "returned", !.rc = 0]
              ELSE IF cli.err \in {"ConfigError", "OSError"}
                   THEN [cli EXCEPT !.pc = "returned", !.rc = 2]
                   ELSE [cli EXCEPT !.pc = "escaped"]
    /\ UNCHANGED <<gvars, tvars, bounds, gen2, bounded, truncated, vpc, rbw>>

NextMain ==
    LoadConfig \/ RenderStep \/ ValidateStep \/ WriteSvg \/ RandomCmd
    \/ CommandEnds \/ MainReturn

SpecMain == InitMain /\ [][NextMain]_vars

\* interpret_to_polylines on short sequences over a table with every kind
\* of command.

\* The table of the tests with a forward of step multiplier 0 (Z), a turn
\* with an angle multiplier (T) and an explicit noop (N).
FrameCommands ==
    ("F" :> [type |-> PyStr("forward"), draw |-> PyBool(TRUE)])
    @@ ("f" :> [type |-> PyStr("forward"), draw |-> PyBool(FALSE)])
    @@ ("Z" :> [type |-> PyStr("forward"), draw |-> PyBool(TRUE),
                step |-> PyInt(0)])
    @@ ("+" :> [type |-> PyStr("turn"), direction |-> PyInt(1)])
    @@ ("T" :> [type |-> PyStr("turn"), direction |-> PyInt(-1),
                angle |-> PyInt(2)])
    @@ ("[" :> [type |-> PyStr("push")])
    @@ ("]" :> [type |-> PyStr("pop")])
    @@ ("N" :> [type |-> PyStr("noop")])

InitDispatch ==
    /\ commands = FrameCommands
    /\ angle_deg = 45
    /\ step = 10
    /\ start = TurtleState(0, 0, 0)
    /\ default_action = "forward_draw"
    /\ stream_symbols = DOMAIN FrameCommands
    /\ x = 0
    /\ y = 0
    /\ h = 0
    /\ polylines = <<>>
    /\ branch_stack = <<>>
    /\ ipc = "called"
    /\ ierr = "none"
    /\ out = <<>>
    /\ consumed = <<>>
    /\ NoGenerator
    /\ NoBounds
    /\ NoSecondGenerator
    /\ NoValidate
    /\ NoMain
    /\ NoRandomWord

\* The iterable is a literal string of at most MaxDispatch symbols.
InterpretShort ==
    /\ Len(consumed) < MaxDispatch
    /\ \E sym \in stream_symbols : Interpret(sym)
    /\ UNCHANGED <<gvars, xvars>>

NextDispatch == Begin \/ InterpretShort \/ Return

SpecDispatch == InitDispatch /\ [][NextDispatch]_vars

\* interpret_to_polylines over tables that differ in one entry: three
\* commands of the tests alone, or with one entry of the malformed table.

SoundCommands == [s \in {"F", "f", "+"} |-> TestCommands[s]]

LazyTables ==
    {SoundCommands}
    \cup {SoundCommands @@ (s :> MalformedCommands[s]) :
             s \in DOMAIN MalformedCommands \ {"F"}}

InitLazy ==
    /\ commands \in LazyTables
    /\ angle_deg = 90
    /\ step = 10
    /\ start = TurtleState(0, 0, 0)
    /\ default_action = "forward_draw"
    /\ stream_symbols = DOMAIN commands
    /\ x = 0
    /\ y = 0
    /\ h = 0
    /\ polylines = <<>>
    /\ branch_stack = <<>>
    /\ ipc = "called"
    /\ ierr = "none"
    /\ out = <<>>
    /\ consumed = <<>>
    /\ NoGenerator
    /\ NoBounds
    /\ NoSecondGenerator
    /\ NoValidate
    /\ NoMain
    /\ NoRandomWord

NextLazy == Begin \/ InterpretShort \/ Return

SpecLazy == InitLazy /\ [][NextLazy]_vars

\* cmd_render on branching L-systems: the rewriter's words hold the
\* brackets the table maps to push and pop, as in the configurations of
\* generate_random_config.

BranchAlphabet == {"F", "[", "]"}

MaxBranchWordLen == 3

BranchWords(n) == UNION {[1..k -> BranchAlphabet] : k \in 0..n}

\* Opening minus closing brackets among the first k symbols of w.
Net(w, k) ==
    Cardinality({i \in 1..k : w[i] = "["}) - Cardinality({i \in 1..k : w[i] = "]"})

\* As the words of _random_balanced_word: every bracket matched, no prefix
\* closing more than it opens.
Balanced(w) == Net(w, Len(w)) = 0 /\ \A k \in 1..Len(w) : Net(w, k) >= 0

\* The words of axioms and rules: the balanced ones, and the single
\* symbols, a lone bracket among them.
ConfigWords == {w \in BranchWords(MaxBranchWordLen) : Balanced(w) \/ Len(w) <= 1}

\* At most one rule, for any symbol of the alphabet.
BranchRuleSets ==
    UNION {[D -> ConfigWords] : D \in {{}} \cup {{ch} : ch \in BranchAlphabet}}

BranchCommands == [s \in BranchAlphabet |-> TestCommands[s]]

InitBranching ==
    /\ axiom \in ConfigWords \ {<<>>}
    /\ rules \in BranchRuleSets
    /\ iterations \in 0..MaxIter
    /\ stack = <<>>
    /\ gstate = "created"
    /\ gerr = "none"
    /\ yielded = <<>>
    /\ pulls = 0
    /\ commands = BranchCommands
    /\ angle_deg = 90
    /\ step = 10
    /\ start = TurtleState(0, 0, 0)
    /\ default_action = "forward_draw"
    /\ stream_symbols = BranchAlphabet
    /\ x = 0
    /\ y = 0
    /\ h = 0
    /\ polylines = <<>>
    /\ branch_stack = <<>>
    /\ ipc = "called"
    /\ ierr = "none"
    /\ out = <<>>
    /\ consumed = <<>>
    /\ NoBounds
    /\ NoSecondGenerator
    /\ NoValidate
    /\ NoMain
    /\ NoRandomWord

NextBranching == Begin \/ Pull \/ ExpandStep \/ Deliver \/ Exhausted

SpecBranching == InitBranching /\ [][NextBranching]_vars

\* _random_balanced_word, lines 566-607.

\* The nesting limit of line 579.
MaxBranchDepth == 3

\* What rng.random() can return at line 578, as far as lines 579 and 586
\* tell apart: r < p_branch, p_branch <= r < 2 * p_branch, and the rest.
Draws == {"below_p", "below_2p", "rest"}

\* What the second draw of line 593 selects (lines 594-599).
Turns == {"F", "+", "-"}

\* NextSymbol closing a bracket at depth 0 too.
NextSymbolClosesAtRoot(r, sym, depth) ==
    IF r = "below_p" /\ depth < MaxBranchDepth
    THEN "["
    ELSE IF r \in {"below_p", "below_2p"}
         THEN "]"
         ELSE sym

\* Lines 578-599: the symbol one iteration appends, from its draws.
NextSymbol(r, sym, depth) ==
    IF r = "below_p" /\ depth < MaxBranchDepth
    THEN "["
    ELSE IF r \in {"below_p", "below_2p"} /\ depth > 0
         THEN "]"
         ELSE sym

\* "]" * n
Closers(n) == [k \in 1..n |-> "]"]

\* The call: length is any integer up to MaxWordLen (range() of a negative
\* length is empty), word = [] and depth = 0.
InitRandomWord ==
    /\ \E n \in -1..MaxWordLen :
           rbw = [length |-> n, i |-> 0, word |-> <<>>, depth |-> 0, pc |-> "loop"]
    /\ NoGenerator
    /\ NoInterpreter
    /\ NoBounds
    /\ NoSecondGenerator
    /\ NoValidate
    /\ NoMain

\* One iteration of the for loop, lines 577-599.
AppendSymbol ==
    /\ rbw.pc = "loop"
    /\ rbw.i < rbw.length
    /\ \E r \in Draws, sym \in Turns :
           LET s == NextSymbol(r, sym, rbw.depth)
           IN  rbw' = [rbw EXCEPT
                          !.i = @ + 1,
                          !.word = Append(@, s),
                          !.depth = IF s = "[" THEN @ + 1
                                    ELSE IF s = "]" THEN @ - 1 ELSE @]
    /\ UNCHANGED <<gvars, tvars, bounds, gen2, bounded, truncated, vpc, cli>>

\* Lines 601-607: the open brackets are closed, an F is appended when the
\* word has none, and the word is returned.
CloseAndReturn ==
    /\ rbw.pc = "loop"
    /\ rbw.i >= rbw.length
    /\ LET closed == rbw.word \o Closers(rbw.depth)
       IN  rbw' = [rbw EXCEPT
                      !.word = IF \E k \in DOMAIN closed : closed[k] = "F"
                               THEN closed
                               ELSE Append(closed, "F"),
                      !.pc = "returned"]
    /\ UNCHANGED <<gvars, tvars, bounds, gen2, bounded, truncated, vpc, cli>>

NextRandomWord == AppendSymbol \/ CloseAndReturn

SpecRandomWord == InitRandomWord /\ [][NextRandomWord]_vars

\* ------------------------------------------------ claims on stream_expand

\* The naive recursion of the specification, on a whole word: each symbol is
\* rewritten while depth < N and it has a rule, and emitted otherwise.
RECURSIVE expand(_, _, _, _)
expand(w, depth, R, N) ==
    IF w = <<>>
    THEN <<>>
    ELSE LET ch == Head(w)
         IN  (IF depth < N /\ ch \in DOMAIN R
              THEN expand(R[ch], depth + 1, R, N)
              ELSE <<ch>>)
             \o expand(Tail(w), depth, R, N)

FullExpansion == expand(axiom, 0, rules, iterations)

Take(w, k) == SubSeq(w, 1, IF k < Len(w) THEN k ELSE Len(w))

AlgaeRules == ("A" :> <<"A", "B">>) @@ ("B" :> <<"A">>)

\* C1: for every axiom, rule set and N >= 0 the symbols yielded so far are a
\* prefix of the naive recursion's sequence, and the exhausted generator has
\* yielded exactly that sequence, in the same order.
C1_OrderEquivalence ==
    iterations >= 0 =>
        /\ yielded = Take(FullExpansion, Len(yielded))
        /\ (gstate = "done" => yielded = FullExpansion)

\* Rules A -> AB, B -> A on axiom A at depth 2 have yielded ABA.
C1_Witness ==
    /\ gstate = "done"
    /\ axiom = <<"A">>
    /\ rules = AlgaeRules
    /\ iterations = 2
    /\ yielded = <<"A", "B", "A">>

\* C2: with iterations = 0 and a non-empty rule set no rule is applied (no
\* frame deeper than the axiom's is ever pushed) and the exhausted generator
\* has yielded exactly the axiom.
C2_ZeroIterations ==
    (iterations = 0 /\ DOMAIN rules # {}) =>
        /\ \A k \in 1..Len(stack) : stack[k].d = 0
        /\ yielded = Take(axiom, Len(yielded))
        /\ (gstate = "done" => yielded = axiom)

\* Every symbol of the axiom has a rule that would change it.
C2_Witness ==
    /\ gstate = "done"
    /\ iterations = 0
    /\ rules = AlgaeRules
    /\ axiom = <<"A", "B">>
    /\ yielded = axiom

\* C3: with an empty rule set the exhausted generator has yielded exactly
\* the axiom, for every axiom and every N >= 0.
C3_EmptyRules ==
    (DOMAIN rules = {} /\ iterations >= 0) =>
        /\ yielded = Take(axiom, Len(yielded))
        /\ (gstate = "done" => yielded = axiom)

C3_Witness ==
    /\ gstate = "done"
    /\ DOMAIN rules = {}
    /\ iterations = MaxIter
    /\ Len(axiom) = MaxAxiomLen
    /\ yielded = axiom

\* C4: after K calls of next() the generator has yielded the first K symbols
\* of the full expansion (all of it when it is shorter than K), never more
\* symbols than were pulled, and while it is suspended at its yield nothing
\* of its state changes until the consumer pulls again.
C4_PullBased ==
    /\ [](iterations >= 0 =>
            /\ Len(yielded) <= pulls
            /\ yielded = Take(FullExpansion, pulls)
                \/ (gstate = "running"
                    /\ yielded = Take(FullExpansion, pulls - 1))
            /\ (gstate = "suspended" => Len(yielded) = pulls))
    /\ [][(gstate = "suspended" /\ pulls' = pulls)
            => UNCHANGED <<stack, yielded, gstate>>]_vars

\* The consumer stopped after 2 symbols of an expansion of 8 or more.
C4_Witness ==
    /\ gstate = "suspended"
    /\ pulls = 2
    /\ Len(yielded) = 2
    /\ Len(FullExpansion) >= 8
    /\ stack # <<>>

\* C5: with iterations < 0 the generator raises ConfigError at its first
\* next(), never builds its stack and never yields a symbol.
C5_NegativeIterations ==
    iterations < 0 =>
        /\ yielded = <<>>
        /\ stack = <<>>
        /\ gstate \in {"created", "raised"}
        /\ (pulls > 0 => gstate = "raised" /\ gerr = "ConfigError")

C5_Witness ==
    /\ iterations < 0
    /\ gstate = "raised"
    /\ gerr = "ConfigError"
    /\ axiom # <<>>
    /\ DOMAIN rules # {}

\* ---------------------------------------- claims on interpret_to_polylines

\* A point given in whole units.
Pt(a, b) == <<a * Milli, b * Milli>>

\* The loop has just dispatched sym.
Dispatched(sym) == consumed' = Append(consumed, sym)

\* The type of the command sym resolves to.
IsType(sym, ty) == Get(ResolveAction(sym), "type", PyNone) = PyStr(ty)

\* How many of the consumed symbols resolve to a command of type ty.
Count(ty) == Cardinality({i \in 1..Len(consumed) : IsType(consumed[i], ty)})

\* The loop went on to its next iteration with exactly the locals st.
ContinuesWith(st) ==
    /\ ipc' = "loop"
    /\ ierr' = "none"
    /\ x' = st.x
    /\ y' = st.y
    /\ h' = st.h
    /\ polylines' = st.polylines
    /\ branch_stack' = st.stack

BranchWord == <<"F", "[", "+", "F", "]", "F">>

BranchPolylines ==
    << <<Pt(0, 0), Pt(10, 0), Pt(10, 10)>>, <<Pt(10, 0), Pt(20, 0)>> >>

\* C6: F[+F]F with base angle 90, step 10 and start (0,0,0) gives exactly
\* the polylines [(0,0),(10,0),(10,10)] and [(10,0),(20,0)], in this order
\* (coordinates at the model's resolution of 1/Milli): no polyline joins the
\* branch tip (10,10) to (10,0).
C6_Branching ==
    (angle_deg = 90 /\ consumed = BranchWord) =>
        /\ ipc \in {"loop", "returned"}
        /\ polylines = BranchPolylines
        /\ (ipc = "returned" => out = BranchPolylines)

C6_Witness ==
    /\ ipc = "returned"
    /\ angle_deg = 90
    /\ step = 10
    /\ consumed = BranchWord
    /\ Len(out) = 2

PenUpWord == <<"F", "f", "F">>

\* sym resolves to a well-formed forward command with draw = false.
IsPenUp(sym) ==
    /\ IsType(sym, "forward")
    /\ Get(ResolveAction(sym), "draw", PyNone) = PyBool(FALSE)
    /\ IsNumber(Get(ResolveAction(sym), "step", PyInt(1)))

\* C7: a forward with draw = false appends a new polyline holding only the
\* destination point and moves the turtle there, leaving every earlier
\* polyline, the heading and the branch stack as they were; FfF from (0,0,0)
\* with step 10 gives exactly [(0,0),(10,0)] and [(20,0),(30,0)].
C7_PenUpStartsNewPolyline ==
    /\ [][\A sym \in stream_symbols :
            (Dispatched(sym) /\ IsPenUp(sym)) =>
                LET mult == Get(ResolveAction(sym), "step", PyInt(1)).n
                IN  /\ x' = x + step * mult * CosMilli(h)
                    /\ y' = y + step * mult * SinMilli(h)
                    /\ polylines' = Append(polylines, << <<x', y'>> >>)
                    /\ UNCHANGED <<h, branch_stack, ipc, ierr>>]_vars
    /\ []((consumed = PenUpWord /\ ipc = "returned") =>
            out = << <<Pt(0, 0), Pt(10, 0)>>, <<Pt(20, 0), Pt(30, 0)>> >>)

C7_Witness ==
    /\ ipc = "returned"
    /\ consumed = PenUpWord
    /\ Len(out) = 2
    /\ Len(polylines) = 2

\* C8: the branch stack holds as many states as pushes exceed pops; the pop
\* that would make pops exceed pushes finds the stack empty, and the
\* interpretation then ends with a ConfigError (the code's error for a stack
\* underflow) and never returns a list of polylines.
C8_PopUnderflow ==
    /\ (ipc \in {"loop", "returned"} =>
            /\ Count("pop") <= Count("push")
            /\ Len(branch_stack) = Count("push") - Count("pop"))
    /\ (Count("pop") > Count("push") =>
            /\ ipc = "raised"
            /\ ierr = "ConfigError"
            /\ out = <<>>
            /\ IsType(consumed[Len(consumed)], "pop")
            /\ Count("pop") = Count("push") + 1
            /\ branch_stack = <<>>)

\* An underflow after a balanced branch that left polylines of two points.
C8_Witness ==
    /\ ipc = "raised"
    /\ ierr = "ConfigError"
    /\ Count("push") >= 1
    /\ Count("pop") = Count("push") + 1
    /\ Cleanup(polylines) # <<>>

\* sym resolves to a turn_abs command with a numeric angle.
IsTurnAbs(sym) ==
    /\ IsType(sym, "turn_abs")
    /\ IsNumber(Get(ResolveAction(sym), "angle", PyNone))

\* C9: a turn_abs adds its angle, in degrees, to the heading whatever the
\* heading and the base angle are, and changes nothing else; AF with
\* A = turn_abs(90), base angle 45 and step 10 gives the single polyline
\* [(0,0),(0,10)] (coordinates at the model's resolution of 1/Milli).
C9_TurnAbsAdds ==
    /\ [][\A sym \in stream_symbols :
            (Dispatched(sym) /\ IsTurnAbs(sym)) =>
                /\ h' = h + Get(ResolveAction(sym), "angle", PyNone).n
                /\ UNCHANGED <<x, y, polylines, branch_stack, ipc, ierr>>]_vars
    /\ []((consumed = <<"A", "F">> /\ angle_deg = 45 /\ ipc = "returned") =>
            out = << <<Pt(0, 0), Pt(0, 10)>> >>)

\* A second turn_abs, taken at heading 90, has been followed by a forward.
C9_Witness ==
    /\ ipc = "returned"
    /\ angle_deg = 45
    /\ consumed = <<"A", "A", "F">>
    /\ h = 180
    /\ out = << <<Pt(0, 0), Pt(-10, 0)>> >>

\* The explicit command each default policy stands for.
ExplicitDefault ==
    ("forward_draw" :> [type |-> PyStr("forward"), draw |-> PyBool(TRUE),
                        step |-> PyInt(1)])
    @@ ("forward_move" :> [type |-> PyStr("forward"), draw |-> PyBool(FALSE),
                           step |-> PyInt(1)])
    @@ ("noop" :> [type |-> PyStr("noop")])

\* The transition the loop must take on sym from the current locals.
TransitionOf(action) ==
    LET st == ApplyAction(Locals, action)
    IN  IF st.err = "none"
        THEN ContinuesWith(st)
        ELSE ipc' = "raised" /\ ierr' = st.err

\* C10: on a symbol absent from the command table the loop takes exactly the
\* transition of the explicit command its default policy stands for
\* (forward_draw: forward, draw, step 1; forward_move: forward, no draw,
\* step 1; noop: noop), and on a symbol of the table the transition of the
\* table's command, whatever the default policy; so X alone gives
\* [(0,0),(10,0)] under forward_draw and no polyline under the other two.
C10_DefaultPolicy ==
    /\ [][\A sym \in stream_symbols :
            Dispatched(sym) =>
                IF sym \in DOMAIN commands
                THEN TransitionOf(commands[sym])
                ELSE TransitionOf(ExplicitDefault[default_action])]_vars
    /\ []((consumed = <<"X">> /\ ipc = "returned") =>
            /\ default_action = "forward_draw" =>
                   /\ out = << <<Pt(0, 0), Pt(10, 0)>> >>
                   /\ polylines = out
            /\ default_action = "forward_move" =>
                   /\ out = <<>>
                   /\ polylines = << <<Pt(0, 0)>>, <<Pt(10, 0)>> >>
            /\ default_action = "noop" =>
                   /\ out = <<>>
                   /\ polylines = << <<Pt(0, 0)>> >>)

\* An absent symbol moved the pen up after a symbol of the table drew.
C10_Witness ==
    /\ ipc = "returned"
    /\ default_action = "forward_move"
    /\ consumed = <<"F", "X", "F">>
    /\ "X" \notin DOMAIN commands
    /\ out = << <<Pt(0, 0), Pt(10, 0)>>, <<Pt(20, 0), Pt(30, 0)>> >>

\* C11: with a default_action other than forward_draw, forward_move and
\* noop the call raises ConfigError before it takes any symbol and before it
\* builds any polyline, also when every symbol of the stream has a command.
C11_InvalidDefaultAction ==
    (default_action \notin {"forward_draw", "forward_move", "noop"}) =>
        /\ ipc \in {"called", "raised"}
        /\ (ipc = "raised" => ierr = "ConfigError")
        /\ consumed = <<>>
        /\ polylines = <<>>
        /\ out = <<>>

\* The step is valid and no symbol of the stream needs the default.
C11_Witness ==
    /\ ipc = "raised"
    /\ ierr = "ConfigError"
    /\ default_action = "typo"
    /\ step = 10
    /\ stream_symbols \subseteq DOMAIN commands

\* C12: with step <= 0 the call raises ConfigError before it takes any
\* symbol, and no polyline is built or returned.
C12_NonPositiveStep ==
    step <= 0 =>
        /\ ipc \in {"called", "raised"}
        /\ (ipc = "raised" => ierr = "ConfigError")
        /\ consumed = <<>>
        /\ polylines = <<>>
        /\ out = <<>>

C12_Witness ==
    /\ ipc = "raised"
    /\ ierr = "ConfigError"
    /\ step = 0
    /\ default_action = "forward_draw"

\* The indices of the buffer's polylines that have at least two points.
Kept == {i \in DOMAIN polylines : Len(polylines[i]) >= 2}

\* C13: every returned polyline has at least two points, and the returned
\* list is the buffer's list without the polylines of fewer than two points:
\* the k-th kept polyline of the buffer is the k-th returned one, unchanged.
C13_CleanupFilter ==
    ipc = "returned" =>
        /\ \A k \in DOMAIN out : Len(out[k]) >= 2
        /\ Len(out) = Cardinality(Kept)
        /\ \A i \in Kept : out[Cardinality({j \in Kept : j <= i})] = polylines[i]

\* F f F f: two polylines kept in order, the trailing single point dropped.
C13_Witness ==
    /\ ipc = "returned"
    /\ Len(polylines) = 3
    /\ Len(polylines[3]) = 1
    /\ Len(out) = 2
    /\ out[1] = <<Pt(0, 0), Pt(10, 0)>>
    /\ out[2] = <<Pt(20, 0), Pt(30, 0)>>

\* Symbol sym resolves to a forward command that draws.
IsDrawingForward(sym) ==
    /\ IsType(sym, "forward")
    /\ Get(ResolveAction(sym), "draw", PyNone) = PyBool(TRUE)

\* C14: when no consumed symbol is a drawing forward step the call returns
\* the empty list, and compute_bounds on that list raises ConfigError and
\* returns no bounds.
C14_NoGeometry ==
    (ipc = "returned" /\ \A i \in DOMAIN consumed : ~IsDrawingForward(consumed[i])) =>
        /\ out = <<>>
        /\ bounds.state \in {"idle", "raised"}
        /\ (bounds.state = "raised" => bounds.err = "ConfigError" /\ bounds.box = <<>>)

\* Two symbols the noop default ignores, then compute_bounds raised.
C14_Witness ==
    /\ ipc = "returned"
    /\ default_action = "noop"
    /\ consumed = <<"X", "X">>
    /\ bounds.state = "raised"
    /\ bounds.err = "ConfigError"

\* Pushes minus pops among the consumed symbols i+1..j.
Depth(i, j) ==
    Cardinality({k \in (i + 1)..j : IsType(consumed[k], "push")})
    - Cardinality({k \in (i + 1)..j : IsType(consumed[k], "pop")})

\* The consumed pushes that no later pop matches.
Unmatched ==
    {i \in DOMAIN consumed :
        /\ IsType(consumed[i], "push")
        /\ \A j \in (i + 1)..Len(consumed) : Depth(i, j) >= 0}

\* The consumed commands with every unmatched push replaced by a noop.
WithoutUnmatched ==
    [i \in DOMAIN consumed |->
        IF i \in Unmatched THEN [type |-> PyStr("noop")]
                           ELSE ResolveAction(consumed[i])]

\* C15: the end of the stream may be reached with frames on the branch
\* stack: the call can return from every state of the loop, the frames left
\* are the unmatched pushes, and the list returned is the one the same
\* commands return with those pushes replaced by noops.
C15_UnmatchedPush ==
    /\ (ipc = "loop" /\ branch_stack # <<>>) => ENABLED Return
    /\ (ipc = "returned" /\ branch_stack # <<>>) =>
            /\ ierr = "none"
            /\ Cardinality(Unmatched) = Len(branch_stack)
            /\ LET st == RunActions(InitialLocals, WithoutUnmatched)
               IN  st.err = "none" /\ out = Cleanup(st.polylines)

\* F [ F + F returned with one frame left and a bent polyline.
C15_Witness ==
    /\ ipc = "returned"
    /\ consumed = <<"F", "[", "F", "+", "F">>
    /\ angle_deg = 90
    /\ Len(branch_stack) = 1
    /\ out = <<(<<Pt(0, 0), Pt(10, 0), Pt(20, 0), Pt(20, 10)>>)>>

\* isinstance(v, (int, float)) for a field that may be absent.
Numeric(v) == v.t \in {"int", "float", "bool"}

\* A command the dispatch must reject: no string type or an unknown one;
\* a forward without a boolean draw or with a non-numeric step; a turn whose
\* direction is not the integer 1 or -1 (1.0, a boolean and an absent
\* direction are none of them) or whose angle is non-numeric; a turn_abs
\* without a numeric angle.
Malformed(action) ==
    LET ty == Get(action, "type", PyNone)
    IN  \/ ty.t # "str"
        \/ ty.s \notin {"noop", "turn", "turn_abs", "push", "pop", "forward"}
        \/ /\ ty.s = "forward"
           /\ \/ Get(action, "draw", PyNone).t # "bool"
              \/ ~Numeric(Get(action, "step", PyInt(1)))
        \/ /\ ty.s = "turn"
           /\ \/ Get(action, "direction", PyNone) \notin {PyInt(1), PyInt(-1)}
              \/ ~Numeric(Get(action, "angle", PyInt(1)))
        \/ /\ ty.s = "turn_abs"
           /\ ~Numeric(Get(action, "angle", PyNone))

\* C16: dispatching a symbol whose command is malformed raises ConfigError
\* and no other exception.  The code does not do this: a direction of 1.0
\* raises TypeError, and a direction of True raises nothing.
C16_MalformedCommand ==
    [][\A sym \in stream_symbols :
          (Dispatched(sym) /\ Malformed(ResolveAction(sym))) =>
              (ipc' = "raised" /\ ierr' = "ConfigError")]_vars

\* A malformed command raised an exception that is not ConfigError.
C16_TypeErrorReached ==
    /\ ipc = "raised"
    /\ ierr = "TypeError"
    /\ consumed # <<>>
    /\ consumed[Len(consumed)] = "i"

\* Every malformed command but the turns with direction 1.0 and True
\* raises ConfigError.
C16_OtherCasesRejected ==
    [][\A sym \in stream_symbols \ {"i", "j"} :
          (Dispatched(sym) /\ Malformed(ResolveAction(sym))) =>
              (ipc' = "raised" /\ ierr' = "ConfigError")]_vars

\* Dispatching sym from the current state is an underflow (a pop on the
\* empty branch stack) or a configuration error (a type no dispatch knows).
ErrorAt(sym) ==
    \/ IsType(sym, "pop") /\ branch_stack = <<>>
    \/ Get(ResolveAction(sym), "type", PyNone).s
           \notin {"noop", "turn", "turn_abs", "push", "pop", "forward"}

\* C17: an error at the k-th symbol ends the call at that symbol: the call
\* raises, exactly k symbols have been pulled from the generator, nothing
\* happens afterwards (no further pull, no return, no bounds), and no
\* polyline list is returned although polylines were completed.
C17_NoPartialSuccess ==
    /\ [](ipc = "raised" =>
            /\ ierr # "none"
            /\ out = <<>>
            /\ bounds.state = "idle"
            /\ pulls = Len(consumed)
            /\ yielded = consumed)
    /\ [][ipc # "raised"]_vars
    /\ [][\A sym \in Alphabet :
            (Dispatched(sym) /\ ErrorAt(sym)) =>
                (ipc' = "raised" /\ ierr' = "ConfigError" /\ out' = <<>>)]_vars

\* A A B with B a pop: three points drawn, then the underflow.
C17_Witness ==
    /\ ipc = "raised"
    /\ consumed = <<"A", "A", "B">>
    /\ commands["B"] = [type |-> PyStr("pop")]
    /\ polylines = <<(<<Pt(0, 0), Pt(10, 0), Pt(20, 0)>>)>>
    /\ Len(FullExpansion) > 3
    /\ out = <<>>

\* C18: the call fed by the generator ends as the call on the materialized
\* expansion does: it returns the same list, or raises the same exception.
C18_LazyEqualsLiteral ==
    LET r == interpret_to_polylines(FullExpansion)
    IN  /\ ipc = "returned" => (r.err = "none" /\ out = r.out)
        /\ ipc = "raised" => (r.err = ierr /\ out = r.out)
        /\ (ipc = "loop" /\ gstate = "done") => r.err = "none"

\* A -> BA twice from A, B a pen-up move: B B A, one polyline after two
\* moves.
C18_Witness ==
    /\ ipc = "returned"
    /\ iterations = 2
    /\ consumed = <<"B", "B", "A">>
    /\ out = <<(<<Pt(20, 0), Pt(30, 0)>>)>>

\* The first VALIDATE_SYMBOL_LIMIT symbols of the expansion, all of it when
\* it is shorter.
Sample == Take(FullExpansion, VALIDATE_SYMBOL_LIMIT)

\* C19: cmd_validate never takes more than VALIDATE_SYMBOL_LIMIT symbols
\* from the generator, nor makes more next() calls than that; the list it
\* builds is the expansion's prefix of that length, the whole expansion when
\* it is shorter, and the interpreter runs on that list and nothing else.
C19_ValidateSample ==
    /\ Len(yielded) <= VALIDATE_SYMBOL_LIMIT
    /\ pulls <= VALIDATE_SYMBOL_LIMIT
    /\ vpc = "islice" => ipc = "idle" /\ consumed = <<>>
    /\ vpc # "islice" => bounded = Sample
    /\ consumed = Take(Sample, Len(consumed))
    /\ ipc = "returned" =>
            /\ consumed = Sample
            /\ out = interpret_to_polylines(Sample).out
    /\ ipc = "raised" => ierr = interpret_to_polylines(Sample).err

\* An expansion of 8 symbols: three of them taken and interpreted, the
\* generator left suspended.
C19_Witness ==
    /\ Len(FullExpansion) = 8
    /\ ipc = "returned"
    /\ Len(consumed) = 3
    /\ pulls = 3
    /\ gstate = "suspended"
    /\ truncated

\* What a generator pulled alone yields in its first k next() calls: the
\* while loop run from the given stack up to its k-th yield.
RECURSIVE Alone(_, _, _, _)
Alone(stk, R, N, k) ==
    IF k = 0 \/ stk = <<>>
    THEN <<>>
    ELSE LET r == LoopBody(stk, R, N)
         IN  IF r.yield = <<>>
             THEN Alone(r.stack, R, N, k)
             ELSE r.yield \o Alone(r.stack, R, N, k - 1)

\* The next() calls of a generator that have returned.
Answered(state, calls) == IF state = "running" THEN calls - 1 ELSE calls

\* C20: with the next() calls of two generators interleaved in any order,
\* each has yielded what it yields alone in as many calls, and its whole
\* expansion once exhausted; no step changes the axiom or the rules of
\* either.
C20_Interleaving ==
    /\ [](/\ yielded = Alone(<<Frame(axiom, 0, 0)>>, rules, iterations,
                             Answered(gstate, pulls))
          /\ gen2.yielded = Alone(<<Frame(gen2.axiom, 0, 0)>>, gen2.rules,
                                  gen2.iterations,
                                  Answered(gen2.gstate, gen2.pulls))
          /\ gstate = "done" => yielded = FullExpansion
          /\ gen2.gstate = "done" =>
                 gen2.yielded = expand(gen2.axiom, 0, gen2.rules, gen2.iterations))
    /\ [][/\ axiom' = axiom
          /\ rules' = rules
          /\ gen2'.axiom = gen2.axiom
          /\ gen2'.rules = gen2.rules]_vars

\* Both generators on the algae system from the same axiom, each suspended
\* at a yield of its own with its own stack.
C20_Witness ==
    /\ rules = AlgaeRules
    /\ gen2.rules = AlgaeRules
    /\ gen2.axiom = axiom
    /\ iterations = 1
    /\ gen2.iterations = 2
    /\ gstate = "suspended"
    /\ gen2.gstate = "suspended"
    /\ Len(yielded) = 1
    /\ Len(gen2.yielded) = 2
    /\ stack # gen2.stack

\* The command failed: an exception was raised inside it.
CommandFailed ==
    \/ cli.err # "none"
    \/ ipc = "raised"
    \/ bounds.state = "raised"
    \/ vpc = "raised"

\* C21: main never lets an exception of its command out, returns 2 when
\* the command failed, and returns 0 only when the command completed.  The
\* code does not do this: the TypeError of a turn with direction 1.0 is
\* caught by neither except clause.
C21_MainExitStatus ==
    /\ cli.pc # "escaped"
    /\ (cli.pc = "returned" /\ CommandFailed) => cli.rc = 2
    /\ (cli.pc = "returned" /\ cli.rc = 0) => ~CommandFailed

\* main left by the TypeError of interpret_to_polylines.
C21_Escaped ==
    /\ cli.pc = "escaped"
    /\ cli.err = "TypeError"
    /\ ipc = "raised"
    /\ consumed[Len(consumed)] = "B"

\* The failures C21 lists do end in status 2, and status 0 means the
\* command completed; the only exception that leaves main is the TypeError.
C21_ListedFailures ==
    /\ (cli.pc = "returned" /\ CommandFailed) => cli.rc = 2
    /\ (cli.pc = "returned" /\ cli.rc = 0) => ~CommandFailed
    /\ cli.pc = "escaped" => cli.err = "TypeError"
    /\ (cli.pc = "returned" /\ cli.err \in {"ConfigError", "OSError"}) => cli.rc = 2

\* C22: the work stack never holds more than iterations + 1 frames, one
\* frame per rewriting depth, whatever the axiom, the rules and the number
\* of symbols already yielded.
C22_StackDepth ==
    /\ Len(stack) <= iterations + 1
    /\ \A k \in DOMAIN stack : stack[k].d = k - 1

\* The bound is reached after two symbols have been yielded.
C22_Witness ==
    /\ iterations = 2
    /\ Len(stack) = 3
    /\ Len(yielded) >= 2
    /\ Len(axiom) = 2

\* C23: with iterations >= 0 a consumer that keeps pulling reaches the end
\* of the stream, whatever the rules (A -> AA, A -> A and empty
\* replacements included); the stack is empty at the end, and once the
\* generator has started it is empty only when every symbol of the
\* expansion has been yielded.
C23_Termination ==
    /\ (iterations >= 0) => <>(gstate = "done" /\ stack = <<>>)
    /\ []((gstate \in {"running", "suspended", "done"} /\ stack = <<>>)
              => yielded = FullExpansion)

\* A -> AA twice from AA: eight symbols, then the end of the stream.
C23_Witness ==
    /\ gstate = "done"
    /\ stack = <<>>
    /\ axiom = <<"A", "A">>
    /\ rules = ("A" :> <<"A", "A">>)
    /\ iterations = 2
    /\ Len(yielded) = 8

\* The symbol dispatched last, if any, resolves to a command of type ty.
LastWas(ty) == consumed # <<>> /\ IsType(consumed[Len(consumed)], ty)

\* The position before and after the step.
Here == <<x, y>>

There == <<x', y'>>

\* C24: a pop on a non-empty branch stack removes the top frame, puts the
\* turtle at exactly that frame's x, y and heading and appends a polyline
\* holding only the restored point, also when the turtle stands on that
\* point already; a drawing step right after the pop makes that polyline
\* the segment from the restored point to the destination.
C24_PopRestores ==
    [][\A sym \in stream_symbols :
          /\ (Dispatched(sym) /\ IsType(sym, "pop") /\ branch_stack # <<>>) =>
                LET top == branch_stack[Len(branch_stack)]
                IN  /\ ipc' = "loop"
                    /\ branch_stack' = SubSeq(branch_stack, 1, Len(branch_stack) - 1)
                    /\ x' = top.x
                    /\ y' = top.y
                    /\ h' = top.heading_deg
                    /\ polylines' = Append(polylines, <<(<<top.x, top.y>>)>>)
          /\ (Dispatched(sym) /\ IsDrawingForward(sym) /\ LastWas("pop")
                 /\ ipc = "loop" /\ There # Here) =>
                /\ Len(polylines') = Len(polylines)
                /\ polylines'[Len(polylines')] = <<Here, There>>]_vars

\* [ ] at the start: the pop restores the point the turtle stands on and
\* still starts a polyline of its own.
C24_Witness ==
    /\ consumed = <<"[", "]">>
    /\ ipc = "loop"
    /\ polylines = <<(<<Pt(0, 0)>>), (<<Pt(0, 0)>>)>>
    /\ branch_stack = <<>>

\* C25: a push appends the current x, y and heading to the branch stack
\* and changes nothing else; a drawing step right after a push appends its
\* destination to the polyline that was active before the push.
C25_PushOnlySaves ==
    [][\A sym \in stream_symbols :
          /\ (Dispatched(sym) /\ IsType(sym, "push")) =>
                /\ ipc' = "loop"
                /\ branch_stack' = Append(branch_stack, TurtleState(x, y, h))
                /\ UNCHANGED <<x, y, h, polylines>>
          /\ (Dispatched(sym) /\ IsDrawingForward(sym) /\ LastWas("push")
                 /\ ipc = "loop" /\ There # Here) =>
                /\ Len(polylines') = Len(polylines)
                /\ polylines'[Len(polylines')]
                       = Append(polylines[Len(polylines)], There)]_vars

\* F [ F: one polyline through the point of the push.
C25_Witness ==
    /\ consumed = <<"F", "[", "F">>
    /\ ipc = "loop"
    /\ polylines = <<(<<Pt(0, 0), Pt(10, 0), Pt(20, 0)>>)>>
    /\ branch_stack = <<TurtleState(10 * Milli, 0, 0)>>

\* C26: a turn adds direction * angle * angle_deg to the heading, the angle
\* being 1 when the command has no angle field, and changes nothing else;
\* a noop changes nothing.
C26_TurnAndNoop ==
    [][\A sym \in stream_symbols :
          /\ (Dispatched(sym) /\ IsType(sym, "turn")) =>
                LET action == ResolveAction(sym)
                    mult == IF "angle" \in DOMAIN action THEN action.angle.n
                                                         ELSE 1
                IN  /\ ipc' = "loop"
                    /\ h' = h + action.direction.n * mult * angle_deg
                    /\ UNCHANGED <<x, y, branch_stack, polylines>>
          /\ (Dispatched(sym) /\ IsType(sym, "noop")) =>
                /\ ipc' = "loop"
                /\ UNCHANGED <<x, y, h, branch_stack, polylines>>]_vars

\* F + T N: +45 degrees, then -90, then a noop.
C26_Witness ==
    /\ consumed = <<"F", "+", "T", "N">>
    /\ ipc = "loop"
    /\ h = -45
    /\ polylines = <<(<<Pt(0, 0), Pt(10, 0)>>)>>

\* No two consecutive points of a polyline of the list are equal.
NoRepeatedPoint(pls) ==
    \A k \in DOMAIN pls : \A j \in 1..(Len(pls[k]) - 1) : pls[k][j] # pls[k][j + 1]

\* C27: a drawing forward appends its destination to the active polyline
\* exactly when the destination differs from that polyline's last point,
\* and no polyline of the buffer or of the output ever has two equal
\* consecutive points.
C27_NoRepeatedPoint ==
    /\ [](NoRepeatedPoint(polylines) /\ NoRepeatedPoint(out))
    /\ [][\A sym \in stream_symbols :
            (Dispatched(sym) /\ IsDrawingForward(sym)) =>
                LET cur == polylines[Len(polylines)]
                IN  /\ ipc' = "loop"
                    /\ polylines' =
                          IF There = cur[Len(cur)]
                          THEN polylines
                          ELSE [polylines EXCEPT ![Len(polylines)] = Append(cur, There)]]_vars

\* F Z F: the forward of multiplier 0 adds no point.
C27_Witness ==
    /\ consumed = <<"F", "Z", "F">>
    /\ ipc = "returned"
    /\ out = <<(<<Pt(0, 0), Pt(10, 0), Pt(20, 0)>>)>>

\* C30: from the start of the loop on, the buffer is non-empty and the last
\* point of its last polyline is the turtle's position; the point a drawing
\* step appends therefore follows the point the turtle stood on.
C30_ActivePolylineAtTurtle ==
    /\ [](ipc \in {"loop", "returned", "raised"} /\ polylines # <<>> =>
            LET cur == polylines[Len(polylines)]
            IN  cur # <<>> /\ cur[Len(cur)] = Here)
    /\ [](ipc \in {"loop", "returned"} => polylines # <<>>)
    /\ [][\A sym \in stream_symbols :
            (Dispatched(sym) /\ IsDrawingForward(sym) /\ polylines' # polylines) =>
                LET cur == polylines'[Len(polylines')]
                IN  /\ Len(cur) >= 2
                    /\ cur[Len(cur)] = There
                    /\ cur[Len(cur) - 1] = Here]_vars

\* f + F: the segment drawn after a pen-up move starts at its destination.
C30_Witness ==
    /\ consumed = <<"f", "+", "F">>
    /\ ipc = "loop"
    /\ polylines = <<(<<Pt(0, 0)>>), (<<Pt(10, 0), <<17070, 7070>>>>)>>
    /\ Here = <<17070, 7070>>

\* cmd_validate has printed its report (lines 939-946).
Reported == vpc \in {"done", "raised"}

\* C28: the report is marked truncated (the "<count>+" label and the
\* warning, both printed when the flag truncated is set) exactly when the
\* expansion has more than VALIDATE_SYMBOL_LIMIT symbols, and otherwise
\* shows the exact count.  The code does not do this: an expansion of
\* exactly VALIDATE_SYMBOL_LIMIT symbols is reported as truncated.
C28_TruncatedLabel ==
    Reported =>
        /\ truncated <=> Len(FullExpansion) > VALIDATE_SYMBOL_LIMIT
        /\ ~truncated => Len(bounded) = Len(FullExpansion)

\* An expansion of exactly the limit, fully sampled, reported as truncated.
C28_ExactLimit ==
    /\ Reported
    /\ truncated
    /\ Len(FullExpansion) = VALIDATE_SYMBOL_LIMIT
    /\ bounded = FullExpansion

\* The flag is set exactly when the expansion has at least
\* VALIDATE_SYMBOL_LIMIT symbols.
C28_AtLeastLimit ==
    Reported =>
        /\ truncated <=> Len(FullExpansion) >= VALIDATE_SYMBOL_LIMIT
        /\ ~truncated => Len(bounded) = Len(FullExpansion)

\* How many of the first k symbols of w are sym.
Occurrences(w, k, sym) == Cardinality({j \in 1..k : w[j] = sym})

\* Open brackets minus close brackets in the first k symbols of w.
Nesting(w, k) == Occurrences(w, k, "[") - Occurrences(w, k, "]")

\* C29: for every length and every sequence of draws, in every prefix of
\* the returned word the close brackets do not outnumber the open ones and
\* the nesting is at most 3, the brackets are equal in number at the end,
\* and the word has an F; the word under construction has the same prefix
\* property, and depth is its nesting.
C29_BalancedWord ==
    /\ \A k \in 0..Len(rbw.word) :
           Nesting(rbw.word, k) >= 0 /\ Nesting(rbw.word, k) <= 3
    /\ rbw.pc = "loop" => rbw.depth = Nesting(rbw.word, Len(rbw.word))
    /\ rbw.pc = "returned" =>
           /\ Nesting(rbw.word, Len(rbw.word)) = 0
           /\ Occurrences(rbw.word, Len(rbw.word), "F") >= 1
           /\ Len(rbw.word) >= rbw.length

\* Four draws below p_branch: three brackets opened, the fourth draw closes
\* one; the rest is closed at the end and the missing F appended.
C29_Witness ==
    /\ rbw.pc = "returned"
    /\ rbw.length = 4
    /\ rbw.word = <<"[", "[", "[", "]", "]", "]", "F">>

\* The locals of the loop after the first k consumed symbols.
LocalsAfter(k) == RunActions(InitialLocals, ActionsOf(SubSeq(consumed, 1, k)))

\* The consumed symbols i..Len(consumed) are a balanced segment "[" w "]":
\* symbol i is a push and the last symbol is the pop that matches it.
ClosesSegmentFrom(i) ==
    /\ IsType(consumed[i], "push")
    /\ i < Len(consumed)
    /\ LastWas("pop")
    /\ Depth(i, Len(consumed)) = -1
    /\ \A j \in (i + 1)..(Len(consumed) - 1) : Depth(i, j) >= 0

\* C31: the branch stack has as many frames as pushes exceed pops, its
\* k-th frame is the turtle state at the k-th push still unmatched (LIFO),
\* and right after a balanced segment "[" w "]" the turtle's x, y, heading
\* and the branch stack are what they were just before its "[".
C31_StackDiscipline ==
    ipc = "loop" =>
        /\ Len(branch_stack) = Count("push") - Count("pop")
        /\ \A i \in Unmatched :
               LET st == LocalsAfter(i - 1)
               IN  branch_stack[Cardinality({j \in Unmatched : j <= i})]
                      = TurtleState(st.x, st.y, st.h)
        /\ \A i \in DOMAIN consumed :
               ClosesSegmentFrom(i) =>
                   LET st == LocalsAfter(i - 1)
                   IN  /\ x = st.x
                       /\ y = st.y
                       /\ h = st.h
                       /\ branch_stack = st.stack

\* [ F [ + ]: the inner segment is closed, the outer push is still open;
\* the turtle is back at the inner push with the heading it had there.
C31_Witness ==
    /\ consumed = <<"[", "F", "[", "+", "]">>
    /\ ipc = "loop"
    /\ Here = Pt(10, 0)
    /\ h = 0
    /\ branch_stack = <<TurtleState(0, 0, 0)>>

\* Sequence s is an initial part of sequence u.
IsPrefix(s, u) == Len(s) <= Len(u) /\ SubSeq(u, 1, Len(s)) = s

\* The step dispatches a pen-up forward or a pop that did not fail.
StartsNewPolyline ==
    \E sym \in stream_symbols :
        /\ Dispatched(sym)
        /\ ipc' = "loop"
        /\ \/ IsType(sym, "pop")
           \/ IsType(sym, "forward") /\ IsPenUp(sym)

\* C34: a step never removes or reorders polylines and changes no polyline
\* but the last one, which it can only extend; a pen-up move or a pop adds
\* one polyline and leaves every polyline that existed exactly as it was.
C34_OnlyActiveModified ==
    [][/\ Len(polylines') >= Len(polylines)
       /\ \A k \in 1..(Len(polylines) - 1) : polylines'[k] = polylines[k]
       /\ polylines # <<>> =>
              IsPrefix(polylines[Len(polylines)], polylines'[Len(polylines)])
       /\ StartsNewPolyline =>
              /\ Len(polylines') = Len(polylines) + 1
              /\ SubSeq(polylines', 1, Len(polylines)) = polylines]_vars

\* F f F [ ]: three polylines, the first two with the points they had when
\* the pen-up move and the pop closed them.
C34_Witness ==
    /\ consumed = <<"F", "f", "F", "[", "]">>
    /\ polylines = << <<Pt(0, 0), Pt(10, 0)>>,
                      <<Pt(20, 0), Pt(30, 0)>>,
                      <<Pt(30, 0)>> >>

\* The symbols whose entry the table has on top of the three sound ones.
ExtraSymbols == DOMAIN commands \ DOMAIN SoundCommands

\* An entry the dispatch has to refuse; a turn with direction True is
\* left out, Python taking True for 1.
Refused(action) ==
    Malformed(action) /\ Get(action, "direction", PyNone) # PyBool(TRUE)

\* No consumed symbol has an extra entry.
Untouched == \A i \in DOMAIN consumed : consumed[i] \notin ExtraSymbols

\* What the call returns for the consumed symbols under the table without
\* the extra entry.
WithoutExtra ==
    Cleanup(RunActions(InitialLocals,
                       [i \in DOMAIN consumed |-> SoundCommands[consumed[i]]]).polylines)

BalancedConfig ==
    Balanced(axiom) /\ \A ch \in DOMAIN rules : Balanced(rules[ch])

\* No rule rewrites a symbol the table maps to push or pop.
BracketsAreConstants ==
    \A ch \in DOMAIN rules : ~IsType(ch, "push") /\ ~IsType(ch, "pop")

\* No pop has met an empty branch stack, whatever part of the stream was
\* consumed, and the stack is empty when the whole stream was.
NeverUnderflows ==
    /\ ipc # "raised"
    /\ ipc = "returned" => gstate = "done" /\ branch_stack = <<>>

\* C32 as stated: balanced axiom and replacement words are enough.
C32_BalancedWords == BalancedConfig => NeverUnderflows

\* C32, amended: when the axiom and every replacement word are balanced
\* and no rule rewrites a push or pop symbol, then for every number of
\* iterations no prefix of the expanded stream pops an empty branch stack
\* and the whole stream leaves the branch stack empty.
C32_BalancedExpansion ==
    (BalancedConfig /\ BracketsAreConstants) => NeverUnderflows

\* F under F -> [F], twice: the stream [[F]] was interpreted to its end.
C32_Witness ==
    /\ axiom = <<"F">>
    /\ rules = ("F" :> <<"[", "F", "]">>)
    /\ iterations = 2
    /\ consumed = <<"[", "[", "F", "]", "]">>
    /\ ipc = "returned"
    /\ branch_stack = <<>>

\* [] under [ -> F: the axiom and the replacement word are balanced, and
\* the stream F] pops an empty stack.
C32_RewrittenBracket ==
    /\ axiom = <<"[", "]">>
    /\ rules = ("[" :> <<"F">>)
    /\ iterations = 1
    /\ consumed = <<"F", "]">>
    /\ ipc = "raised"
    /\ ierr = "ConfigError"

====
